---- MODULE Spec2Model ----
(***************************************************************************)
(* Onboarding AI Assistant: the retry-guarded call to the Bedrock agent    *)
(* (agents/orchestrator.py, utils/aws_helper.py, pages/chat_agent.py,      *)
(* voice_agent.py), the feature-flagged facades (features/                 *)
(* email_automation.py, features/progress_tracker.py, features/            *)
(* scheduler.py), the lazily constructed AWS clients of AWSHelper and the  *)
(* three lambda functions under infrastructure/lamda_functions/            *)
(* (interview_scheduler, email_automation, document_processor).            *)
(*                                                                         *)
(* Texts are sequences of tokens: a literal is one token, an f-string is   *)
(* the sequence of its literal parts and interpolated values, and string   *)
(* concatenation is \o.                                                    *)
(***************************************************************************)
EXTENDS Integers, Sequences, FiniteSets, TLC

\* ---------------------------------------------------------------- bounds
\* Largest attempt count drawn for the retries argument and for the
\* configured API_RETRY_COUNT.
MaxAttempts == 3
\* Largest number of events one completion stream delivers.
MaxEvents == 2
\* Guarded calls made one after another in one behaviour.
MaxCalls == 2

\* ------------------------------------------------------------- constants
\* def ask_agent(..., retries=3, delay=5) in pages/chat_agent.py and
\* voice_agent.py.
DefaultRetries == 3

Variants == {"orchestrator", "helper", "chat", "voice"}
\* The variants whose result is a dict; chat and voice return a str.
DictVariants == {"orchestrator", "helper"}

\* The retries argument: <<>> when the caller passes none, <<n>> otherwise.
RetriesArgs(v) ==
  IF v = "helper" THEN {<<>>} ELSE {<<>>} \cup {<<n>> : n \in 0..MaxAttempts}

\* config.API_RETRY_COUNT: src/config.py does not set it (nor API_RETRY_DELAY,
\* BEDROCK_TIMEOUT); the retry policy's maxAttempts is an integer >= 1.
ConfiguredRetryCounts == 1..MaxAttempts

\* Exceptions the agent runtime raises: the retryable class and another one.
ISE == "InternalServerException"
ExcKinds == {ISE, "AccessDeniedException"}
\* str(e) of a raised exception.
RawErrs == {"raw1", "raw2"}
\* Text carried by a chunk event.
ChunkTexts == {"a", "b"}
SessionId == "s1"

VARIABLES
  focus,         \* the object a behaviour exercises: agent call, email, tracker,
                 \* scheduler, module completion, lazy clients, interview
                 \* lambda, slot generation
  variant,       \* which retry-guarded function is called
  cfgRetryCount, \* config.API_RETRY_COUNT
  retriesArg,    \* the retries argument of the current call
  retries,       \* the local retries (loop bound) once the function is entered
  pc,            \* position in the function
  attempt,       \* the for-loop variable
  invocations,   \* invoke_agent calls made by the current call
  waits,         \* time.sleep calls made by the current call
  inflight,      \* invoke_agent calls begun and not yet ended
  nEvents,       \* events the current stream has delivered
  events,        \* the events the current attempt's stream has delivered
  lostChunks,    \* an earlier attempt of this call got a chunk and then failed
  responseText,  \* the local response_text of the current attempt
  log,           \* how each finished attempt of the current call ended
  exc,           \* the exception being handled or propagated
  result,        \* what the call returned
  calls,         \* guarded calls begun
  prev           \* the previous call's failure, as its caller saw it

agentVars == <<variant, cfgRetryCount, retriesArg, retries, pc, attempt,
               invocations, waits, inflight, nEvents, events, lostChunks,
               responseText, log, exc, result, calls, prev>>

VARIABLES
  flags,    \* config.ENABLE_EMAIL_AUTOMATION, config.ENABLE_PROGRESS_TRACKING,
            \* config.ENABLE_SCHEDULER
  email,    \* the EmailAutomation object: built, self.enabled, self.ses
  tracker,  \* the ProgressTracker object: built, self.table
  meetingScheduler,  \* the MeetingScheduler object: built, self.enabled,
                     \* self.dynamodb
  store,    \* the onboarding-progress table: user_id -> item, or NoItem
  today,    \* datetime.now().date(), as a day number
  ops,      \* facade operations begun
  lastOp    \* the last facade operation: its name, the service calls it made,
            \* the value it returned

facadeVars == <<flags, email, tracker, meetingScheduler, store, today, ops, lastOp>>

VARIABLES
  clients,   \* AWSHelper's _bedrock_agent, _s3, ...: property -> object, 0 for None
  built,     \* property -> clients constructed for it so far
  threads,   \* thread -> where it stands in a property getter
  returned,  \* property -> the objects its getter has returned
  accesses   \* property accesses begun

lazyVars == <<clients, built, threads, returned, accesses>>

VARIABLES
  event,                \* the event lambda_handler was invoked with
  lpc,                  \* position in lambda_handler
  startDate,            \* start_date of schedule_onboarding_meetings
  required,             \* required_meetings
  idx,                  \* iterations of the loop over required_meetings done
  scheduledMeetings,    \* scheduled_meetings
  schedulingConflicts,  \* scheduling_conflicts
  meetingsTable,        \* the items of the onboarding-meetings table
  invitesSent,          \* invitations SES accepted
  found,                \* the last iteration's preferred_times and the slot
                        \* find_optimal_time_slot made of them
  response,             \* what lambda_handler returned
  handlerReturned,      \* the function the event was handed to has returned
  genInput,             \* the arguments of a generate_preferred_times call
  genSlots              \* the list it returned

lambdaVars == <<event, lpc, startDate, required, idx, scheduledMeetings,
                schedulingConflicts, meetingsTable, invitesSent, found,
                response, handlerReturned, genInput, genSlots>>

VARIABLES
  mailEvent,            \* the event the email-automation handler was given
  sendAttempts,         \* that invocation's ses.send_email calls and outcomes
  mailResponse,         \* what the handler returned
  deliveries            \* invocations so far

mailVars == <<mailEvent, sendAttempts, mailResponse, deliveries>>

VARIABLES
  docEvent,             \* the S3 event the document processor was given
  dpc,                  \* position in its lambda_handler
  recIdx,               \* records of the event the loop has passed
  processed,            \* the process_document calls made, in order
  docItems,             \* the items put into the onboarding-documents table
  docResponse           \* what the handler returned

docVars == <<docEvent, dpc, recIdx, processed, docItems, docResponse>>

NoExc == [kind |-> "none", raw |-> "none"]
NoResult == [kind |-> "pending"]
NoPrev == [outcome |-> "none", raw |-> "none", response |-> <<>>]

\* ------------------------------------------------ the code's decisions

\* retries = retries or config.API_RETRY_COUNT (orchestrator);
\* range(config.API_RETRY_COUNT) (helper); the default argument (chat, voice).
EffectiveRetries(v, arg, cfg) ==
  CASE v = "orchestrator" -> IF arg = <<>> \/ arg = <<0>> THEN cfg ELSE arg[1]
    [] v = "helper"       -> cfg
    [] OTHER              -> IF arg = <<>> THEN DefaultRetries ELSE arg[1]

\* except ...InternalServerException: the only class the retry branch catches.
MutIsRetryable(kind) == TRUE
IsRetryable(kind) == kind = ISE

\* if attempt < retries - 1: sleep and go round again.
MutShouldRetry(a, n) == a < n
ShouldRetry(a, n) == a < n - 1

\* except Exception as e: present in orchestrator and helper only.
CatchesOther(v) == v \in DictVariants

\* The events of response['completion'].
ChunkEvent(c) == [chunk |-> c]
TraceEvent == [trace |-> "t"]

\* if 'chunk' in event
IsChunk(ev) == "chunk" \in DOMAIN ev

\* response_text = "" at the start of every attempt's stream.
MutResponseTextAtStart(old) == old
ResponseTextAtStart(old) == <<>>

\* if 'chunk' in event: response_text += event['chunk']['bytes'].decode('utf-8')
AddEvent(text, ev) ==
  IF IsChunk(ev) THEN text \o <<ev.chunk>> ELSE text

\* The successful return.
MutSuccessResult(v, text, sid) ==
  IF v \in DictVariants
    THEN [kind |-> "dict",
          d |-> [success |-> FALSE, response |-> text, session_id |-> sid]]
    ELSE [kind |-> "str", text |-> <<>>]
SuccessResult(v, text, sid) ==
  IF v \in DictVariants
    THEN [kind |-> "dict",
          d |-> [success |-> TRUE, response |-> text, session_id |-> sid]]
    ELSE [kind |-> "str", text |-> text]

\* The return of the last attempt's InternalServerException branch.
ExhaustedText(v) ==
  CASE v = "orchestrator" ->
         <<"Sorry, I am temporarily unavailable. Please try again later.">>
    [] v = "helper" ->
         <<"Sorry, I am temporarily unavailable. Please try again.">>
    [] OTHER ->
         <<"Sorry, the service is temporarily unavailable. Please try again later.">>

MutExhaustedResult(v) ==
  IF v \in DictVariants
    THEN [kind |-> "dict",
          d |-> [success |-> FALSE, error |-> <<exc.raw>>,
                 response |-> <<"Error: ", exc.raw>>]]
    ELSE [kind |-> "str", text |-> <<"Error: ", exc.raw>>]
ExhaustedResult(v) ==
  IF v \in DictVariants
    THEN [kind |-> "dict",
          d |-> [success |-> FALSE,
                 error |-> <<"Service temporarily unavailable">>,
                 response |-> ExhaustedText(v)]]
    ELSE [kind |-> "str", text |-> ExhaustedText(v)]

\* The return of the except Exception branch: str(e) and an f-string over it.
ErrorPrefix(v) == IF v = "orchestrator" THEN "An error occurred: " ELSE "Error: "

MutErrorResult(v, raw) ==
  [kind |-> "dict",
   d |-> [success |-> FALSE, error |-> <<raw>>,
          response |-> <<"An error occurred. Please try again later.">>]]
ErrorResult(v, raw) ==
  [kind |-> "dict",
   d |-> [success |-> FALSE, error |-> <<raw>>,
          response |-> <<ErrorPrefix(v), raw>>]]

\* A function body that ends without a return statement returns None.
NoneResult == [kind |-> "None"]

\* result.get('response', 'Sorry, I encountered an error.') in show_chat, and the
\* plain response of chat and voice: the text the caller displays.
Displayed(r) ==
  CASE r.kind = "dict" -> r.d.response
    [] r.kind = "str"  -> r.text
    [] OTHER           -> <<>>

\* ------------------------------------------------------- the guarded call

\* The function is entered: the loop bound is fixed (orchestrator.py 30-31).
Enter ==
  /\ focus = "agent"
  /\ UNCHANGED <<focus, mailVars, docVars, facadeVars, lazyVars, lambdaVars>>
  /\ pc = "call"
  /\ retries' = EffectiveRetries(variant, retriesArg, cfgRetryCount)
  /\ attempt' = 0
  /\ pc' = "loop"
  /\ UNCHANGED <<events, lostChunks>>
  /\ UNCHANGED <<variant, cfgRetryCount, retriesArg, invocations, waits,
                 inflight, nEvents, responseText, log, exc, result,
                 calls, prev>>

\* for attempt in range(retries): the body starts with invoke_agent.
Invoke ==
  /\ focus = "agent"
  /\ UNCHANGED <<focus, mailVars, docVars, facadeVars, lazyVars, lambdaVars>>
  /\ pc = "loop"
  /\ attempt < retries
  /\ invocations' = invocations + 1
  /\ inflight' = inflight + 1
  /\ events' = <<>>
  /\ pc' = "invoking"
  /\ UNCHANGED lostChunks
  /\ UNCHANGED <<variant, cfgRetryCount, retriesArg, retries, attempt, waits,
                 nEvents, responseText, log, exc, result, calls, prev>>

\* range(retries) is exhausted (only when it is empty): the function ends
\* without a return statement.
LoopExit ==
  /\ focus = "agent"
  /\ UNCHANGED <<focus, mailVars, docVars, facadeVars, lazyVars, lambdaVars>>
  /\ pc = "loop"
  /\ ~(attempt < retries)
  /\ result' = NoneResult
  /\ pc' = "returned"
  /\ UNCHANGED <<events, lostChunks>>
  /\ UNCHANGED <<variant, cfgRetryCount, retriesArg, retries, attempt,
                 invocations, waits, inflight, nEvents, responseText,
                 log, exc, calls, prev>>

\* invoke_agent returns its response: response_text = "".
InvokeReturns ==
  /\ focus = "agent"
  /\ UNCHANGED <<focus, mailVars, docVars, facadeVars, lazyVars, lambdaVars>>
  /\ pc = "invoking"
  /\ responseText' = ResponseTextAtStart(responseText)
  /\ nEvents' = 0
  /\ pc' = "stream"
  /\ UNCHANGED <<events, lostChunks>>
  /\ UNCHANGED <<variant, cfgRetryCount, retriesArg, retries, attempt,
                 invocations, waits, inflight, log, exc, result,
                 calls, prev>>

\* for event in response['completion']: a chunk event is appended.
StreamChunk ==
  /\ focus = "agent"
  /\ UNCHANGED <<focus, mailVars, docVars, facadeVars, lazyVars, lambdaVars>>
  /\ pc = "stream"
  /\ nEvents < MaxEvents
  /\ \E c \in ChunkTexts :
       /\ responseText' = AddEvent(responseText, ChunkEvent(c))
       /\ events' = Append(events, ChunkEvent(c))
  /\ nEvents' = nEvents + 1
  /\ UNCHANGED lostChunks
  /\ UNCHANGED <<variant, cfgRetryCount, retriesArg, retries, pc, attempt,
                 invocations, waits, inflight, log, exc, result, calls, prev>>

\* An event without 'chunk' (a trace event) is skipped.
StreamOther ==
  /\ focus = "agent"
  /\ UNCHANGED <<focus, mailVars, docVars, facadeVars, lazyVars, lambdaVars>>
  /\ pc = "stream"
  /\ nEvents < MaxEvents
  /\ responseText' = AddEvent(responseText, TraceEvent)
  /\ events' = Append(events, TraceEvent)
  /\ nEvents' = nEvents + 1
  /\ UNCHANGED lostChunks
  /\ UNCHANGED <<variant, cfgRetryCount, retriesArg, retries, pc, attempt,
                 invocations, waits, inflight, log,
                 exc, result, calls, prev>>

\* The stream ends: the success value is returned.
StreamEnd ==
  /\ focus = "agent"
  /\ UNCHANGED <<focus, mailVars, docVars, facadeVars, lazyVars, lambdaVars>>
  /\ pc = "stream"
  /\ inflight' = inflight - 1
  /\ log' = Append(log, "ok")
  /\ result' = SuccessResult(variant, responseText, SessionId)
  /\ pc' = "returned"
  /\ UNCHANGED <<events, lostChunks>>
  /\ UNCHANGED <<variant, cfgRetryCount, retriesArg, retries, attempt,
                 invocations, waits, nEvents, responseText, exc,
                 calls, prev>>

\* invoke_agent, or the iteration over the stream, raises.
Raise ==
  /\ focus = "agent"
  /\ UNCHANGED <<focus, mailVars, docVars, facadeVars, lazyVars, lambdaVars>>
  /\ pc \in {"invoking", "stream"}
  /\ \E k \in ExcKinds, raw \in RawErrs :
       /\ exc' = [kind |-> k, raw |-> raw]
       /\ log' = Append(log, IF k = ISE THEN "transient" ELSE "other")
  /\ inflight' = inflight - 1
  /\ lostChunks' = (lostChunks \/ \E i \in 1..Len(events) : IsChunk(events[i]))
  /\ pc' = "except"
  /\ UNCHANGED events
  /\ UNCHANGED <<variant, cfgRetryCount, retriesArg, retries, attempt,
                 invocations, waits, nEvents, responseText, result,
                 calls, prev>>

\* The except clauses, in order.
Handle ==
  /\ focus = "agent"
  /\ UNCHANGED <<focus, mailVars, docVars, facadeVars, lazyVars, lambdaVars>>
  /\ pc = "except"
  /\ IF IsRetryable(exc.kind)
       THEN IF ShouldRetry(attempt, retries)
              THEN /\ waits' = waits + 1
                   /\ pc' = "sleep"
                   /\ UNCHANGED result
              ELSE /\ result' = ExhaustedResult(variant)
                   /\ pc' = "returned"
                   /\ UNCHANGED waits
       ELSE IF CatchesOther(variant)
              THEN /\ result' = ErrorResult(variant, exc.raw)
                   /\ pc' = "returned"
                   /\ UNCHANGED waits
              ELSE /\ pc' = "raised"
                   /\ UNCHANGED <<result, waits>>
  /\ UNCHANGED <<events, lostChunks>>
  /\ UNCHANGED <<variant, cfgRetryCount, retriesArg, retries, attempt,
                 invocations, inflight, nEvents, responseText, log,
                 exc, calls, prev>>

\* time.sleep(delay) returns: the loop goes to its next iteration.
SleepDone ==
  /\ focus = "agent"
  /\ UNCHANGED <<focus, mailVars, docVars, facadeVars, lazyVars, lambdaVars>>
  /\ pc = "sleep"
  /\ attempt' = attempt + 1
  /\ pc' = "loop"
  /\ UNCHANGED <<events, lostChunks>>
  /\ UNCHANGED <<variant, cfgRetryCount, retriesArg, retries, invocations,
                 waits, inflight, nEvents, responseText, log, exc,
                 result, calls, prev>>

\* How the finished call looks to its caller.
Outcome ==
  CASE pc = "raised" -> "raised"
    [] result.kind = "None" -> "nothing"
    [] log # <<>> /\ log[Len(log)] = "ok" -> "success"
    [] log # <<>> /\ log[Len(log)] = "transient" -> "exhausted"
    [] OTHER -> "terminal"

\* The caller makes its next call (one chat turn after another).
NewCall ==
  /\ focus = "agent"
  /\ UNCHANGED <<focus, mailVars, docVars, facadeVars, lazyVars, lambdaVars>>
  /\ pc \in {"returned", "raised"}
  /\ calls < MaxCalls
  /\ calls' = calls + 1
  /\ prev' = IF Outcome \in {"exhausted", "terminal"}
               THEN [outcome |-> Outcome, raw |-> exc.raw,
                     response |-> Displayed(result)]
               ELSE prev
  /\ \E a \in RetriesArgs(variant) : retriesArg' = a
  /\ retries' = 0
  /\ attempt' = 0
  /\ invocations' = 0
  /\ waits' = 0
  /\ nEvents' = 0
  /\ events' = <<>>
  /\ lostChunks' = FALSE
  /\ responseText' = <<>>
  /\ log' = <<>>
  /\ exc' = NoExc
  /\ result' = NoResult
  /\ pc' = "call"
  /\ UNCHANGED <<variant, cfgRetryCount, inflight>>

InitAgentVars ==
  /\ variant \in Variants
  /\ cfgRetryCount \in ConfiguredRetryCounts
  /\ retriesArg \in RetriesArgs(variant)
  /\ retries = 0
  /\ pc = "call"
  /\ attempt = 0
  /\ invocations = 0
  /\ waits = 0
  /\ inflight = 0
  /\ nEvents = 0
  /\ events = <<>>
  /\ lostChunks = FALSE
  /\ responseText = <<>>
  /\ log = <<>>
  /\ exc = NoExc
  /\ result = NoResult
  /\ calls = 1
  /\ prev = NoPrev

NextAgent ==
  \/ Enter
  \/ Invoke
  \/ LoopExit
  \/ InvokeReturns
  \/ StreamChunk
  \/ StreamOther
  \/ StreamEnd
  \/ Raise
  \/ Handle
  \/ SleepDone
  \/ NewCall

\* ------------------------------------------------ the feature-flagged facades
\* EmailAutomation (features/email_automation.py), ProgressTracker
\* (features/progress_tracker.py) and MeetingScheduler (features/scheduler.py).
\* A facade method runs to completion on the
\* caller's thread: one action is one whole method, with the outcome of every
\* service call it makes drawn nondeterministically.

\* Facade operations begun in one behaviour.
MaxOps == 3
\* Days the clock may advance.
MaxDays == 2

Users == {"u1", "u2"}
MessageIds == {"msg1"}
None == "None"

NoItem == [absent |-> TRUE]
NoOp == [name |-> "none", calls |-> 0, value |-> [kind |-> "pending"]]
Dict(d) == [kind |-> "dict", d |-> d]

\* str(date) and datetime.strptime(s, '%Y-%m-%d').date().
DateStr(n) == <<"date", n>>
IsDateStr(s) == Len(s) = 2 /\ s[1] = "date"

\* EmailAutomation.__init__: the flag is copied, the client is built only when
\* the flag is set, a failed construction leaves self.ses = None.
EmailConstructed(flag, clientOk) ==
  [built |-> TRUE, enabled |-> flag,
   ses |-> IF flag /\ clientOk THEN "client" ELSE None]

\* ProgressTracker.__init__.
TrackerConstructed(flag, resourceOk) ==
  [built |-> TRUE, table |-> IF flag /\ resourceOk THEN "table" ELSE None]

\* MeetingScheduler.__init__.
SchedulerConstructed(flag, resourceOk) ==
  [built |-> TRUE, enabled |-> flag,
   dynamodb |-> IF flag /\ resourceOk THEN "resource" ELSE None]

\* if not self.enabled or not self.ses
MutEmailUnavailable(obj) == ~obj.enabled /\ obj.ses = None
EmailUnavailable(obj) == ~obj.enabled \/ obj.ses = None

\* if not self.table
MutTableMissing(obj) == FALSE
TableMissing(obj) == obj.table = None

\* EmailAutomation._send_email; out is what ses.send_email does when called.
MutSendEmailOp(obj, out) ==
  IF EmailUnavailable(obj)
    THEN [name |-> "_send_email", calls |-> 0,
          value |-> Dict([success |-> FALSE,
                          message |-> <<"Email automation not enabled">>])]
    ELSE IF out.ok
      THEN [name |-> "_send_email", calls |-> 1,
            value |-> Dict([success |-> TRUE, message_id |-> out.id])]
      ELSE [name |-> "_send_email", calls |-> 1,
            value |-> Dict([success |-> TRUE, error |-> <<out.raw>>])]
SendEmailOp(obj, out) ==
  IF EmailUnavailable(obj)
    THEN [name |-> "_send_email", calls |-> 0,
          value |-> Dict([success |-> FALSE,
                          message |-> <<"Email automation not enabled">>])]
    ELSE IF out.ok
      THEN [name |-> "_send_email", calls |-> 1,
            value |-> Dict([success |-> TRUE, message_id |-> out.id])]
      ELSE [name |-> "_send_email", calls |-> 1,
            value |-> Dict([success |-> FALSE, error |-> <<out.raw>>])]

SesOutcomes ==
  {[ok |-> TRUE, id |-> m, raw |-> "none"] : m \in MessageIds}
    \cup {[ok |-> FALSE, id |-> "none", raw |-> r] : r \in RawErrs}

\* ProgressTracker._calculate_streak(last_activity_date), called on day t.
CalculateStreak(last, t) ==
  IF ~IsDateStr(last) THEN 0
  ELSE LET diff == t - last[2] IN
       IF diff = 0 THEN 1 ELSE IF diff = 1 THEN 1 ELSE 0

\* The user_profile dicts handed to initialize_progress.
UserProfiles ==
  { [role |-> "Engineer", department |-> "Engineering"], <<>> }

\* user_profile.get(key, default)
Get(dict, key, default) == IF key \in DOMAIN dict THEN dict[key] ELSE default

\* The item initialize_progress builds.
InitialProgress(u, profile, t) ==
  [user_id |-> u,
   role |-> Get(profile, "role", "Unknown"),
   department |-> Get(profile, "department", "Unknown"),
   start_date |-> DateStr(t),
   overall_progress |-> 0, completed_modules |-> <<>>,
   in_progress_modules |-> <<>>, upcoming_modules |-> <<>>,
   assessments_completed |-> 0, vr_experiences_completed |-> 0,
   learning_streak_days |-> 0, last_activity_date |-> DateStr(t),
   milestones_achieved |-> <<>>,
   total_learning_time_minutes |-> 0]

\* ProgressTracker._get_mock_progress.
MockProgress(u, t) ==
  [user_id |-> u, overall_progress |-> 45,
   completed_modules |-> <<"Company Culture", "IT Systems Setup">>,
   in_progress_modules |-> <<"Role-Specific Training">>,
   upcoming_modules |-> <<"Team Collaboration", "Advanced Skills">>,
   assessments_completed |-> 2, vr_experiences_completed |-> 1,
   learning_streak_days |-> 12, last_activity_date |-> DateStr(t),
   total_learning_time_minutes |-> 180]

\* for key, value in update_data.items(): current_progress[key] = value
Merge(cur, upd) ==
  [k \in DOMAIN cur \cup DOMAIN upd |->
     IF k \in DOMAIN upd THEN upd[k] ELSE cur[k]]

\* The item update_progress writes back (lines 69-81): the merged fields, the
\* activity date set to today, the streak computed from the date just set.
UpdatedItem(cur, upd, t) ==
  LET merged == Merge(cur, upd)
      dated  == [merged EXCEPT !.last_activity_date = DateStr(t)]
  IN [dated EXCEPT
        !.learning_streak_days = CalculateStreak(dated.last_activity_date, t)]

UpdateDatas ==
  { [overall_progress |-> 50],
    [in_progress_modules |-> <<"m1">>, upcoming_modules |-> <<"m2">>] }

DbOutcomes == {[ok |-> TRUE, raw |-> "none"]} \cup {[ok |-> FALSE, raw |-> r] : r \in RawErrs}

\* ProgressTracker.update_progress as a function of the object, the table and the
\* outcomes of get_item and put_item: the operation record and the table after.
UpdateProgressOp(obj, st, u, upd, t, getOut, putOut) ==
  IF TableMissing(obj)
    THEN [op |-> [name |-> "update_progress", calls |-> 0,
                  value |-> Dict([success |-> FALSE,
                                  message |-> <<"Progress tracking not available">>])],
          store |-> st]
  ELSE IF ~getOut.ok
    THEN [op |-> [name |-> "update_progress", calls |-> 1,
                  value |-> Dict([success |-> FALSE, error |-> <<getOut.raw>>])],
          store |-> st]
  ELSE IF st[u] = NoItem
    THEN [op |-> [name |-> "update_progress", calls |-> 1,
                  value |-> Dict([success |-> FALSE,
                                  message |-> <<"User progress not found">>])],
          store |-> st]
  ELSE IF ~putOut.ok
    THEN [op |-> [name |-> "update_progress", calls |-> 2,
                  value |-> Dict([success |-> FALSE, error |-> <<putOut.raw>>])],
          store |-> st]
  ELSE LET item == UpdatedItem(st[u], upd, t) IN
       [op |-> [name |-> "update_progress", calls |-> 2,
                value |-> Dict([success |-> TRUE, progress |-> item])],
        store |-> [st EXCEPT ![u] = item]]

\* ProgressTracker.get_progress.
GetProgressOp(obj, st, u, t, getOut) ==
  IF TableMissing(obj)
    THEN [name |-> "get_progress", calls |-> 0, value |-> Dict(MockProgress(u, t))]
  ELSE IF getOut.ok /\ st[u] # NoItem
    THEN [name |-> "get_progress", calls |-> 1, value |-> Dict(st[u])]
    ELSE [name |-> "get_progress", calls |-> 1, value |-> Dict(MockProgress(u, t))]

\* ProgressTracker.initialize_progress: the item is returned whether or not it
\* was stored.
InitializeProgressOp(obj, st, u, profile, t, putOut) ==
  IF TableMissing(obj)
    THEN [op |-> [name |-> "initialize_progress", calls |-> 0,
                  value |-> Dict(InitialProgress(u, profile, t))],
          store |-> st]
    ELSE [op |-> [name |-> "initialize_progress", calls |-> 1,
                  value |-> Dict(InitialProgress(u, profile, t))],
          store |-> IF putOut.ok
                      THEN [st EXCEPT ![u] = InitialProgress(u, profile, t)]
                      ELSE st]

\* The meeting_data dicts handed to schedule_meeting, by the keys they carry.
RequiredFields == <<"title", "date", "time", "duration", "attendees">>
MeetingDatas ==
  { [title |-> "t", date |-> "d", time |-> "10:00", duration |-> 30,
     attendees |-> <<"a">>],
    [title |-> "t", date |-> "d", time |-> "10:00", duration |-> 30,
     attendees |-> <<"a">>, location |-> "Room A"],
    [title |-> "t", time |-> "10:00", duration |-> 30, attendees |-> <<"a">>],
    [date |-> "d", time |-> "10:00"] }

\* MeetingScheduler.schedule_meeting: the first required field that is missing
\* is reported; nothing is stored and no service is called. now is the clock
\* reading the id is made of.
ScheduleMeetingOp(data, t, now) ==
  LET missing == {i \in 1..Len(RequiredFields) : RequiredFields[i] \notin DOMAIN data} IN
  IF missing # {}
    THEN LET i == CHOOSE j \in missing : \A k \in missing : j <= k IN
         [name |-> "schedule_meeting", calls |-> 0,
          value |-> Dict([success |-> FALSE,
                          error |-> <<"Missing required field: ", RequiredFields[i]>>])]
    ELSE [name |-> "schedule_meeting", calls |-> 0,
          value |-> Dict([success |-> TRUE,
                          meeting |-> [id |-> <<"meet_", t, now>>,
                                       title |-> data.title,
                                       location |-> IF "location" \in DOMAIN data
                                                      THEN data.location ELSE "Virtual",
                                       status |-> "scheduled"],
                          message |-> <<"Meeting scheduled successfully">>])]

\* module_name in a list
Contains(list, x) == \E i \in 1..Len(list) : list[i] = x

\* list.remove(x): the first occurrence goes.
RemoveFirst(list, x) ==
  IF ~Contains(list, x) THEN list
  ELSE LET i == CHOOSE j \in 1..Len(list) :
                  list[j] = x /\ \A k \in 1..(j - 1) : list[k] # x
       IN SubSeq(list, 1, i - 1) \o SubSeq(list, i + 1, Len(list))

\* int((len(completed) / total_modules) * 100) if total_modules > 0 else 0.
\* The float product equals the integer quotient for every pair of list lengths
\* below 29 of 50.
OverallProgress(nCompleted, nTotal) ==
  IF nTotal > 0 THEN (100 * nCompleted) \div nTotal ELSE 0

\* The update_data complete_module builds from the progress it has read
\* (lines 159-180).
CompletionUpdate(progress, m, minutes) ==
  LET completed == Append(Get(progress, "completed_modules", <<>>), m)
      in_progress == RemoveFirst(Get(progress, "in_progress_modules", <<>>), m)
      total_time == Get(progress, "total_learning_time_minutes", 0) + minutes
      total_modules == Len(completed) + Len(in_progress)
                         + Len(Get(progress, "upcoming_modules", <<>>))
  IN [completed_modules |-> completed,
      in_progress_modules |-> in_progress,
      total_learning_time_minutes |-> total_time,
      overall_progress |-> OverallProgress(Len(completed), total_modules)]

\* if module_name not in progress.get('completed_modules', [])
NeedsCompletion(progress, m) ==
  ~Contains(Get(progress, "completed_modules", <<>>), m)

\* ProgressTracker.complete_module: get_progress, then update_progress unless
\* the module is among the completed ones of what get_progress returned.
\* getOut is the outcome of get_progress's get_item, getOut2 and putOut those of
\* update_progress's calls.
CompleteModuleOp(obj, st, u, m, minutes, t, getOut, getOut2, putOut) ==
  LET g == GetProgressOp(obj, st, u, t, getOut)
      progress == g.value.d
      r == UpdateProgressOp(obj, st, u, CompletionUpdate(progress, m, minutes),
                            t, getOut2, putOut)
      args == [user_id |-> u, module_name |-> m, time_spent_minutes |-> minutes]
  IN IF NeedsCompletion(progress, m)
       THEN [op |-> [name |-> "complete_module", calls |-> g.calls + r.op.calls,
                     value |-> r.op.value, args |-> args,
                     puts |-> IF r.op.calls = 2 THEN 1 ELSE 0],
             store |-> r.store]
       ELSE [op |-> [name |-> "complete_module", calls |-> g.calls,
                     value |-> Dict([success |-> TRUE,
                                     message |-> <<"Module already completed">>]),
                     args |-> args, puts |-> 0],
             store |-> st]

\* The modules complete_module is called for, and the minutes spent.
ModuleNames == {"m1", "m2"}
MinutesSpent == {30}

EmailInit ==
  /\ focus = "email"
  /\ ~email.built
  /\ \E ok \in BOOLEAN : email' = EmailConstructed(flags.email, ok)
  /\ UNCHANGED <<focus, mailVars, docVars, agentVars, lazyVars, lambdaVars, meetingScheduler, flags, tracker, store, today, ops, lastOp>>

SendEmail ==
  /\ focus = "email"
  /\ email.built
  /\ ops < MaxOps
  /\ \E out \in SesOutcomes : lastOp' = SendEmailOp(email, out)
  /\ ops' = ops + 1
  /\ UNCHANGED <<focus, mailVars, docVars, agentVars, lazyVars, lambdaVars, meetingScheduler, flags, email, tracker, store, today>>

\* The configuration object is written after the facades were built.
SetFlag ==
  /\ focus \in {"email", "tracker", "scheduler"}
  /\ \/ focus = "email" /\ email.built
        /\ flags' = [flags EXCEPT !.email = ~@]
     \/ focus = "tracker" /\ tracker.built
        /\ flags' = [flags EXCEPT !.tracking = ~@]
     \/ focus = "scheduler" /\ meetingScheduler.built
        /\ flags' = [flags EXCEPT !.scheduler = ~@]
  /\ UNCHANGED <<focus, mailVars, docVars, agentVars, lazyVars, lambdaVars, meetingScheduler, email, tracker, store, today, ops, lastOp>>

TrackerInit ==
  /\ focus \in {"tracker", "modules"}
  /\ ~tracker.built
  /\ \E ok \in BOOLEAN : tracker' = TrackerConstructed(flags.tracking, ok)
  /\ UNCHANGED <<focus, mailVars, docVars, agentVars, lazyVars, lambdaVars, meetingScheduler, flags, email, store, today, ops, lastOp>>

InitializeProgress ==
  /\ focus \in {"tracker", "modules"}
  /\ tracker.built
  /\ ops < MaxOps
  /\ \E u \in Users, profile \in UserProfiles, putOut \in DbOutcomes :
       LET r == InitializeProgressOp(tracker, store, u, profile, today, putOut) IN
       /\ lastOp' = r.op
       /\ store' = r.store
  /\ ops' = ops + 1
  /\ UNCHANGED <<focus, mailVars, docVars, agentVars, lazyVars, lambdaVars, meetingScheduler, flags, email, tracker, today>>

UpdateProgress ==
  /\ focus \in {"tracker", "modules"}
  /\ tracker.built
  /\ ops < MaxOps
  /\ \E u \in Users, upd \in UpdateDatas, getOut \in DbOutcomes, putOut \in DbOutcomes :
       LET r == UpdateProgressOp(tracker, store, u, upd, today, getOut, putOut) IN
       /\ lastOp' = r.op
       /\ store' = r.store
  /\ ops' = ops + 1
  /\ UNCHANGED <<focus, mailVars, docVars, agentVars, lazyVars, lambdaVars, meetingScheduler, flags, email, tracker, today>>

CompleteModule ==
  /\ focus = "modules"
  /\ tracker.built
  /\ ops < MaxOps
  /\ \E u \in Users, m \in ModuleNames, minutes \in MinutesSpent,
        getOut \in DbOutcomes, getOut2 \in DbOutcomes, putOut \in DbOutcomes :
       LET r == CompleteModuleOp(tracker, store, u, m, minutes, today,
                                 getOut, getOut2, putOut) IN
       /\ lastOp' = r.op
       /\ store' = r.store
  /\ ops' = ops + 1
  /\ UNCHANGED <<focus, mailVars, docVars, agentVars, lazyVars, lambdaVars, meetingScheduler, flags, email, tracker, today>>

GetProgress ==
  /\ focus = "tracker"
  /\ tracker.built
  /\ ops < MaxOps
  /\ \E u \in Users, getOut \in DbOutcomes :
       lastOp' = GetProgressOp(tracker, store, u, today, getOut)
  /\ ops' = ops + 1
  /\ UNCHANGED <<focus, mailVars, docVars, agentVars, lazyVars, lambdaVars, meetingScheduler, flags, email, tracker, store, today>>

SchedulerInit ==
  /\ focus = "scheduler"
  /\ ~meetingScheduler.built
  /\ \E ok \in BOOLEAN :
       meetingScheduler' = SchedulerConstructed(flags.scheduler, ok)
  /\ UNCHANGED <<focus, mailVars, docVars, agentVars, lazyVars, lambdaVars, flags, email, tracker, store, today, ops, lastOp>>

ScheduleMeeting ==
  /\ focus = "scheduler"
  /\ meetingScheduler.built
  /\ ops < MaxOps
  /\ \E data \in MeetingDatas : lastOp' = ScheduleMeetingOp(data, today, ops)
  /\ ops' = ops + 1
  /\ UNCHANGED <<focus, mailVars, docVars, agentVars, lazyVars, lambdaVars, meetingScheduler, flags, email, tracker, store, today>>

\* Midnight passes.
NextDay ==
  /\ focus \in {"tracker", "scheduler"}
  /\ today < MaxDays
  /\ today' = today + 1
  /\ UNCHANGED <<focus, mailVars, docVars, agentVars, lazyVars, lambdaVars, meetingScheduler, flags, email, tracker, store, ops, lastOp>>

InitFacadeVars ==
  /\ flags \in [email : BOOLEAN, tracking : BOOLEAN, scheduler : BOOLEAN]
  /\ email = [built |-> FALSE, enabled |-> FALSE, ses |-> None]
  /\ tracker = [built |-> FALSE, table |-> None]
  /\ meetingScheduler = [built |-> FALSE, enabled |-> FALSE, dynamodb |-> None]
  /\ store = [u \in Users |-> NoItem]
  /\ today = 0
  /\ ops = 0
  /\ lastOp = NoOp

\* The other component at rest while one is exercised.
IdleAgentVars ==
  /\ variant = "orchestrator"
  /\ cfgRetryCount = 1
  /\ retriesArg = <<>>
  /\ retries = 0
  /\ pc = "idle"
  /\ attempt = 0
  /\ invocations = 0
  /\ waits = 0
  /\ inflight = 0
  /\ nEvents = 0
  /\ events = <<>>
  /\ lostChunks = FALSE
  /\ responseText = <<>>
  /\ log = <<>>
  /\ exc = NoExc
  /\ result = NoResult
  /\ calls = 0
  /\ prev = NoPrev

IdleFacadeVars ==
  /\ flags = [email |-> TRUE, tracking |-> TRUE, scheduler |-> TRUE]
  /\ email = [built |-> FALSE, enabled |-> FALSE, ses |-> None]
  /\ tracker = [built |-> FALSE, table |-> None]
  /\ meetingScheduler = [built |-> FALSE, enabled |-> FALSE, dynamodb |-> None]
  /\ store = [u \in Users |-> NoItem]
  /\ today = 0
  /\ ops = 0
  /\ lastOp = NoOp

NextFacade ==
  \/ EmailInit
  \/ SendEmail
  \/ SetFlag
  \/ TrackerInit
  \/ InitializeProgress
  \/ UpdateProgress
  \/ GetProgress
  \/ SchedulerInit
  \/ ScheduleMeeting
  \/ NextDay

\* The progress record under complete_module.
NextModules ==
  \/ TrackerInit
  \/ InitializeProgress
  \/ UpdateProgress
  \/ CompleteModule

\* ------------------------------------------------ AWSHelper's lazy clients
\* utils/aws_helper.py 31-74: six properties of one shape,
\*   if not self._x: self._x = boto3.client(...)
\*   return self._x
\* run by the threads that share the AWSHelper object, one bytecode-level step
\* at a time: the test reads self._x, the constructor call makes a new object,
\* the store writes self._x, the return reads self._x again.

\* Threads sharing one AWSHelper.
MaxThreads == 2
\* Property accesses begun in one behaviour.
MaxAccesses == 3

Props == {"bedrock_agent", "s3", "dynamodb", "ses", "transcribe", "polly"}
Threads == 1..MaxThreads
IdleThread == [pc |-> "idle", prop |-> "none", tmp |-> 0]

\* if not self._x
MutNeedsConstruction(cur) == TRUE
NeedsConstruction(cur) == cur = 0

\* A thread starts reading a property.
Access(t) ==
  /\ focus = "lazy"
  /\ threads[t].pc = "idle"
  /\ accesses < MaxAccesses
  /\ \E p \in Props : threads' = [threads EXCEPT ![t] = [pc |-> "test", prop |-> p, tmp |-> 0]]
  /\ accesses' = accesses + 1
  /\ UNCHANGED <<focus, mailVars, docVars, agentVars, facadeVars, lambdaVars, clients, built, returned>>

\* if not self._x
Test(t) ==
  /\ focus = "lazy"
  /\ threads[t].pc = "test"
  /\ threads' = [threads EXCEPT ![t].pc =
                   IF NeedsConstruction(clients[threads[t].prop])
                     THEN "construct" ELSE "return"]
  /\ UNCHANGED <<focus, mailVars, docVars, agentVars, facadeVars, lambdaVars, clients, built, returned, accesses>>

\* boto3.client(...) / boto3.resource(...) returns a new object.
Construct(t) ==
  /\ focus = "lazy"
  /\ threads[t].pc = "construct"
  /\ LET p == threads[t].prop IN
       /\ built' = [built EXCEPT ![p] = @ + 1]
       /\ threads' = [threads EXCEPT ![t].pc = "store", ![t].tmp = built[p] + 1]
  /\ UNCHANGED <<focus, mailVars, docVars, agentVars, facadeVars, lambdaVars, clients, returned, accesses>>

\* boto3.client(...) raises: the exception leaves the getter, self._x is as it
\* was.
ConstructRaises(t) ==
  /\ focus = "lazy"
  /\ threads[t].pc = "construct"
  /\ threads' = [threads EXCEPT ![t] = IdleThread]
  /\ UNCHANGED <<focus, mailVars, docVars, agentVars, facadeVars, lambdaVars, clients, built, returned, accesses>>

\* self._x = <the new object>
Store(t) ==
  /\ focus = "lazy"
  /\ threads[t].pc = "store"
  /\ clients' = [clients EXCEPT ![threads[t].prop] = threads[t].tmp]
  /\ threads' = [threads EXCEPT ![t].pc = "return"]
  /\ UNCHANGED <<focus, mailVars, docVars, agentVars, facadeVars, lambdaVars, built, returned, accesses>>

\* return self._x
Return(t) ==
  /\ focus = "lazy"
  /\ threads[t].pc = "return"
  /\ LET p == threads[t].prop IN
       returned' = [returned EXCEPT ![p] = @ \cup {clients[p]}]
  /\ threads' = [threads EXCEPT ![t] = IdleThread]
  /\ UNCHANGED <<focus, mailVars, docVars, agentVars, facadeVars, lambdaVars, clients, built, accesses>>

InitLazyVars ==
  /\ clients = [p \in Props |-> 0]
  /\ built = [p \in Props |-> 0]
  /\ threads = [t \in Threads |-> IdleThread]
  /\ returned = [p \in Props |-> {}]
  /\ accesses = 0

NextLazy ==
  \/ \E t \in Threads : Access(t)
  \/ \E t \in Threads : Test(t)
  \/ \E t \in Threads : Construct(t)
  \/ \E t \in Threads : ConstructRaises(t)
  \/ \E t \in Threads : Store(t)
  \/ \E t \in Threads : Return(t)

\* ------------------------------------------------ the interview-scheduler lambda
\* infrastructure/lamda_functions/interview_scheduler/lambda_function.py.
\* A date is a day number, day 0 being a Monday; a datetime is a day and the
\* minute of that day.  The handler runs one event to its response; the loop of
\* schedule_onboarding_meetings is one step per required meeting, with the
\* outcome of put_item and of send_email drawn nondeterministically.

\* Longest meeting handed to generate_preferred_times, in half hours.
MaxDurationHalfHours == 18

\* The day of the week of the start dates tried: Monday .. Sunday.
StartDays == 0..6

\* if end_time.hour >= 17
ClosingHour == 17

\* role.lower(), by the keywords of get_required_meetings that occur in it.
RoleTexts ==
  { {}, {"engineer"}, {"developer"}, {"sales"}, {"marketing"},
    {"sales", "engineer"} }

\* Python's None where the other values are dicts.
PyNone == [none |-> TRUE]
IsNone(x) == "none" \in DOMAIN x

DateTime(d, m) == [day |-> d, minute |-> m]

\* dt + timedelta(minutes=n), n >= 0
AddMinutes(dt, n) ==
  LET m == dt.minute + n IN DateTime(dt.day + (m \div 1440), m % 1440)

\* dt + timedelta(days=i)
AddDays(dt, i) == DateTime(dt.day + i, dt.minute)

\* dt.hour
Hour(dt) == dt.minute \div 60

\* dt.weekday(): 0 is Monday
Weekday(dt) == dt.day % 7

\* dt.isoformat() of a datetime without seconds: date, hour, minute.
IsoFormat(dt) == <<"iso", dt.day, dt.minute \div 60, dt.minute % 60>>

\* datetime.fromisoformat(s)
FromIsoFormat(s) == DateTime(s[2], s[3] * 60 + s[4])

\* The start_date strings of employee_data: an ISO date, an ISO date and time,
\* or text that is no date.
StartDateStrs ==
  {<<"iso", d, 0, 0>> : d \in StartDays}
    \cup {<<"iso", 2, 8, 30>>}
    \cup {<<"next monday">>}

\* datetime.fromisoformat(start_date_str.split('T')[0]): midnight of the date,
\* or ValueError.
ParseStartDate(s) ==
  IF s[1] = "iso" THEN DateTime(s[2], 0) ELSE [error |-> "ValueError"]
IsError(x) == "error" \in DOMAIN x

\* get_required_meetings: the three base meetings, then the role's.
BaseMeetings ==
  << [type |-> "manager_welcome", title |-> "Welcome Meeting with Manager",
      duration |-> 60, timing |-> "first_day",
      participants |-> <<"direct_manager">>],
     [type |-> "hr_orientation", title |-> "HR Orientation Session",
      duration |-> 90, timing |-> "first_week",
      participants |-> <<"hr_representative">>],
     [type |-> "buddy_introduction", title |-> "Meet Your Onboarding Buddy",
      duration |-> 30, timing |-> "first_week",
      participants |-> <<"onboarding_buddy">>] >>

RoleMeetings(role) ==
  IF role \cap {"engineer", "developer"} # {}
    THEN << [type |-> "technical_architecture",
             title |-> "Technical Architecture Overview",
             duration |-> 120, timing |-> "first_week",
             participants |-> <<"tech_lead", "senior_engineer">>],
            [type |-> "development_setup",
             title |-> "Development Environment Setup",
             duration |-> 90, timing |-> "first_day",
             participants |-> <<"dev_ops_engineer">>] >>
  ELSE IF role \cap {"sales", "account"} # {}
    THEN << [type |-> "sales_process_training",
             title |-> "Sales Process and CRM Training",
             duration |-> 120, timing |-> "first_week",
             participants |-> <<"sales_manager", "sales_ops">>],
            [type |-> "product_demo_training",
             title |-> "Product Demonstration Training",
             duration |-> 90, timing |-> "second_week",
             participants |-> <<"product_specialist">>] >>
  ELSE IF role \cap {"marketing"} # {}
    THEN << [type |-> "brand_guidelines",
             title |-> "Brand Guidelines and Marketing Standards",
             duration |-> 90, timing |-> "first_week",
             participants |-> <<"brand_manager">>] >>
  ELSE <<>>

GetRequiredMeetings(role) == BaseMeetings \o RoleMeetings(role)

\* The offsets of target_dates from start_date.
TargetOffsets(timing) ==
  CASE timing = "first_day"   -> <<0>>
    [] timing = "first_week"  -> <<0, 1, 2, 3, 4>>
    [] timing = "second_week" -> <<7, 8, 9, 10, 11>>
    [] OTHER                  -> [i \in 1..14 |-> i - 1]

BusinessHours == <<9, 10, 11, 13, 14, 15>>

\* The slot that starts at hour on date.
SlotAt(date, hour, duration) ==
  LET start == DateTime(date.day, hour * 60) IN
  [start_time |-> start, end_time |-> AddMinutes(start, duration)]

\* if end_time.hour >= 17: continue
PastClosing(slot) == Hour(slot.end_time) >= ClosingHour

\* The inner loop of generate_preferred_times for one target date.
SlotsOfDate(date, duration) ==
  IF Weekday(date) >= 5 THEN <<>>
  ELSE SelectSeq([i \in 1..Len(BusinessHours) |->
                    SlotAt(date, BusinessHours[i], duration)],
                 LAMBDA s : ~PastClosing(s))

RECURSIVE SlotsOfDates(_, _, _)
SlotsOfDates(start, offsets, duration) ==
  IF offsets = <<>> THEN <<>>
  ELSE SlotsOfDate(AddDays(start, Head(offsets)), duration)
         \o SlotsOfDates(start, Tail(offsets), duration)

\* generate_preferred_times(start_date, meeting_config)
GeneratePreferredTimes(start, config) ==
  SlotsOfDates(start, TargetOffsets(Get(config, "timing", "first_week")),
               Get(config, "duration", 60))

\* find_optimal_time_slot: the first preferred time, whoever takes part and
\* whatever the meetings table holds.
MutFindOptimalTimeSlot(preferred, participants, table) ==
  IF preferred # <<>> /\ \A i \in 1..Len(table) :
                           table[i].start_time # IsoFormat(preferred[1].start_time)
    THEN [slot |-> preferred[1], participants |-> <<>>]
    ELSE PyNone
FindOptimalTimeSlot(preferred, participants, table) ==
  IF preferred # <<>>
    THEN [slot |-> preferred[1], participants |-> <<>>]
    ELSE PyNone

\* The record create_meeting stores and returns; n stands for the uuid.
MeetingData(employee, config, slot, n) ==
  [meeting_id |-> <<"meeting_", n>>,
   employee_id |-> employee,
   meeting_type |-> config.type,
   title |-> config.title,
   start_time |-> IsoFormat(slot.slot.start_time),
   end_time |-> IsoFormat(slot.slot.end_time),
   duration_minutes |-> config.duration,
   participants |-> Get(slot, "participants", <<>>),
   status |-> "scheduled"]

\* The two conflict records of schedule_onboarding_meetings.
NoSlotConflict(config) ==
  [meeting_type |-> config.type, reason |-> <<"no_available_slots">>,
   participants |-> config.participants]
ErrorConflict(config, raw) ==
  [meeting_type |-> config.type, reason |-> <<"error: ", raw>>,
   participants |-> Get(config, "participants", <<>>)]

\* send_calendar_invites: its whole body is inside try/except Exception, so the
\* call returns whatever send_email does.
MutSendCalendarInvites(meeting, sesOut) ==
  IF sesOut.ok THEN [raised |-> FALSE, sent |-> 1, raw |-> "none"]
  ELSE [raised |-> TRUE, sent |-> 0, raw |-> sesOut.raw]
SendCalendarInvites(meeting, sesOut) ==
  [raised |-> FALSE, sent |-> IF sesOut.ok THEN 1 ELSE 0, raw |-> "none"]

SesResults == {[ok |-> TRUE, raw |-> "none"], [ok |-> FALSE, raw |-> "raw1"]}
PutResults == {[ok |-> TRUE, raw |-> "none"], [ok |-> FALSE, raw |-> "raw2"]}

\* One iteration of the loop of schedule_onboarding_meetings (lines 137-179):
\* what it appends to the two lists, what it stores, the invitations it sent, and
\* what find_optimal_time_slot was given and gave.
ScheduleOne(employee, start, config, table, n, putOut, sesOut) ==
  LET preferred == GeneratePreferredTimes(start, config)
      slot == FindOptimalTimeSlot(preferred, config.participants, table)
      meeting == MeetingData(employee, config, slot, n)
      invite == SendCalendarInvites(meeting, sesOut)
      base == [preferred |-> preferred, slot |-> slot]
  IN
  IF IsNone(slot)
    THEN [scheduled |-> <<>>, conflicts |-> <<NoSlotConflict(config)>>,
          stored |-> <<>>, sent |-> 0, found |-> base]
  ELSE IF ~putOut.ok
    THEN [scheduled |-> <<>>, conflicts |-> <<ErrorConflict(config, putOut.raw)>>,
          stored |-> <<>>, sent |-> 0, found |-> base]
  ELSE IF invite.raised
    THEN [scheduled |-> <<meeting>>,
          conflicts |-> <<ErrorConflict(config, invite.raw)>>,
          stored |-> <<meeting>>, sent |-> invite.sent, found |-> base]
  ELSE [scheduled |-> <<meeting>>, conflicts |-> <<>>,
        stored |-> <<meeting>>, sent |-> invite.sent, found |-> base]

\* The events handed to lambda_handler.
EmployeeDatas ==
  {[employee_id |-> "e1", role |-> r, start_date |-> s] :
     r \in RoleTexts, s \in StartDateStrs}
    \cup {[employee_id |-> "e1", role |-> {"marketing"}], [employee_id |-> "e1"]}

StubActions ==
  {"find_available_slots", "confirm_meeting", "reschedule_meeting",
   "cancel_meeting", "daily_schedule_check"}

LambdaEvents ==
  {[scheduling_action |-> "schedule_onboarding_meetings", employee_data |-> e] :
     e \in EmployeeDatas}
    \cup {[scheduling_action |-> "schedule_onboarding_meetings"]}
    \cup {[scheduling_action |-> a, meeting_id |-> "m1"] :
            a \in StubActions \cup {"delete_everything"}}
    \cup {[source |-> "aws.events"], [source |-> "custom.app"], <<>>}
    \cup {[new_employee |-> TRUE,
           employee_data |-> [employee_id |-> "e1", role |-> {"developer"},
                              start_date |-> s]] : s \in StartDateStrs}
    \cup {[new_employee |-> TRUE, source |-> "custom.app"]}

\* The if/elif chain of lambda_handler (lines 55-95): the function the event is
\* handed to, or the ValueError raised.
Dispatch(ev) ==
  IF "scheduling_action" \in DOMAIN ev
    THEN IF ev.scheduling_action = "schedule_onboarding_meetings"
           THEN "schedule_onboarding_meetings"
         ELSE IF ev.scheduling_action \in StubActions
           THEN ev.scheduling_action
         ELSE "ValueError"
  ELSE IF "source" \in DOMAIN ev /\ ev.source = "aws.events"
    THEN "handle_scheduled_event"
  ELSE IF "new_employee" \in DOMAIN ev
    THEN "schedule_onboarding_meetings"
  ELSE "ValueError"

\* What the stub handlers return.
StubResult(handler, ev) ==
  CASE handler = "find_available_slots" ->
         [status |-> "success", available_slots |-> <<>>]
    [] handler \in {"daily_schedule_check", "handle_scheduled_event"} ->
         [status |-> "success", upcoming_meetings |-> 0]
    [] OTHER -> [status |-> "success", meeting_id |-> Get(ev, "meeting_id", None)]

\* return {'statusCode': 200, 'body': json.dumps(result)}
OkResponse(res) == [statusCode |-> 200, body |-> res]

\* The except clause of lambda_handler.
MutFailureResponse(details) ==
  [statusCode |-> 200,
   body |-> [error |-> "Interview scheduling failed", details |-> details]]
FailureResponse(details) ==
  [statusCode |-> 500,
   body |-> [error |-> "Interview scheduling failed", details |-> details]]

NoResponse == [statusCode |-> 0, body |-> None]
NoFound == [preferred |-> <<>>, slot |-> PyNone]
NoGenInput == [start |-> DateTime(0, 0), config |-> <<>>]
NoGenSlots == [returned |-> FALSE, list |-> <<>>]

\* A meeting the table holds before the event: the same employee, Monday 9:00.
EarlierMeeting ==
  [meeting_id |-> <<"meeting_", "earlier">>, employee_id |-> "e1",
   meeting_type |-> "manager_welcome", title |-> "Welcome Meeting with Manager",
   start_time |-> IsoFormat(DateTime(0, 540)),
   end_time |-> IsoFormat(DateTime(0, 600)),
   duration_minutes |-> 60, participants |-> <<>>, status |-> "scheduled"]

\* employee_data.get('employee_id') of event.get('employee_data', {})
EmployeeData(ev) == Get(ev, "employee_data", <<>>)
EmployeeId(ev) == Get(EmployeeData(ev), "employee_id", None)

\* lambda_handler finds no handler for the event: ValueError, caught by its own
\* except clause.
RejectEvent ==
  /\ focus = "interview"
  /\ lpc = "start"
  /\ Dispatch(event) = "ValueError"
  /\ response' = FailureResponse(<<"ValueError">>)
  /\ lpc' = "responded"
  /\ UNCHANGED <<focus, mailVars, docVars, agentVars, facadeVars, lazyVars, event, startDate,
                 required, idx, scheduledMeetings, schedulingConflicts,
                 meetingsTable, invitesSent, found, handlerReturned,
                 genInput, genSlots>>

\* One of the handlers that only return a dict.
StubHandler ==
  /\ focus = "interview"
  /\ lpc = "start"
  /\ Dispatch(event) \in StubActions \cup {"handle_scheduled_event"}
  /\ response' = OkResponse(StubResult(Dispatch(event), event))
  /\ handlerReturned' = TRUE
  /\ lpc' = "responded"
  /\ UNCHANGED <<focus, mailVars, docVars, agentVars, facadeVars, lazyVars, event, startDate,
                 required, idx, scheduledMeetings, schedulingConflicts,
                 meetingsTable, invitesSent, found, genInput, genSlots>>

\* schedule_onboarding_meetings up to its loop (lines 116-135): a start date
\* that does not parse raises through both functions into the handler's except
\* clause; a missing one is today.
StartScheduling ==
  /\ focus = "interview"
  /\ lpc = "start"
  /\ Dispatch(event) = "schedule_onboarding_meetings"
  /\ LET data == EmployeeData(event) IN
     \/ /\ "start_date" \in DOMAIN data
        /\ IsError(ParseStartDate(data.start_date))
        /\ response' = FailureResponse(<<"ValueError">>)
        /\ lpc' = "responded"
        /\ UNCHANGED <<startDate, required>>
     \/ /\ \/ /\ "start_date" \in DOMAIN data
              /\ ~IsError(ParseStartDate(data.start_date))
              /\ startDate' = ParseStartDate(data.start_date)
           \/ /\ "start_date" \notin DOMAIN data
              /\ \E d \in StartDays : startDate' = DateTime(d, 0)
        /\ required' = GetRequiredMeetings(Get(data, "role", {}))
        /\ lpc' = "loop"
        /\ UNCHANGED response
  /\ UNCHANGED <<focus, mailVars, docVars, agentVars, facadeVars, lazyVars, event, idx,
                 scheduledMeetings, schedulingConflicts, meetingsTable,
                 invitesSent, found, handlerReturned, genInput, genSlots>>

\* for meeting_config in required_meetings: one iteration.
ScheduleNext ==
  /\ focus = "interview"
  /\ lpc = "loop"
  /\ idx < Len(required)
  /\ \E putOut \in PutResults, sesOut \in SesResults :
       LET r == ScheduleOne(EmployeeId(event), startDate, required[idx + 1],
                            meetingsTable, idx + 1, putOut, sesOut) IN
       /\ scheduledMeetings' = scheduledMeetings \o r.scheduled
       /\ schedulingConflicts' = schedulingConflicts \o r.conflicts
       /\ meetingsTable' = meetingsTable \o r.stored
       /\ invitesSent' = invitesSent + r.sent
       /\ found' = r.found
  /\ idx' = idx + 1
  /\ UNCHANGED <<focus, mailVars, docVars, agentVars, facadeVars, lazyVars, event, lpc, startDate,
                 required, response, handlerReturned, genInput, genSlots>>

\* The loop is over: the results are stored and mailed (failures of either are
\* logged only), the summary dict is returned and the handler answers.
FinishScheduling ==
  /\ focus = "interview"
  /\ lpc = "loop"
  /\ idx = Len(required)
  /\ response' = OkResponse([status |-> "success",
                             employee_id |-> EmployeeId(event),
                             scheduled_meetings |-> Len(scheduledMeetings),
                             scheduling_conflicts |-> Len(schedulingConflicts),
                             meetings |-> scheduledMeetings,
                             conflicts |-> schedulingConflicts])
  /\ handlerReturned' = TRUE
  /\ lpc' = "responded"
  /\ UNCHANGED <<focus, mailVars, docVars, agentVars, facadeVars, lazyVars, event, startDate,
                 required, idx, scheduledMeetings, schedulingConflicts,
                 meetingsTable, invitesSent, found, genInput, genSlots>>

\* generate_preferred_times called on its own.
Timings == {"first_day", "first_week", "second_week", "first_month"}
SlotConfigs ==
  {[timing |-> t, duration |-> 30 * k] :
     t \in Timings, k \in 1..MaxDurationHalfHours}
    \cup {[timing |-> t] : t \in Timings}
    \cup {[duration |-> 30 * k] : k \in 1..MaxDurationHalfHours}
    \cup {<<>>}

Generate ==
  /\ focus = "slots"
  /\ ~genSlots.returned
  /\ genSlots' = [returned |-> TRUE,
                  list |-> GeneratePreferredTimes(genInput.start, genInput.config)]
  /\ UNCHANGED <<focus, mailVars, docVars, agentVars, facadeVars, lazyVars, event, lpc, startDate,
                 required, idx, scheduledMeetings, schedulingConflicts,
                 meetingsTable, invitesSent, found, response, handlerReturned,
                 genInput>>

IdleLambdaVars ==
  /\ event = <<>>
  /\ lpc = "idle"
  /\ startDate = PyNone
  /\ required = <<>>
  /\ idx = 0
  /\ scheduledMeetings = <<>>
  /\ schedulingConflicts = <<>>
  /\ meetingsTable = <<>>
  /\ invitesSent = 0
  /\ found = NoFound
  /\ response = NoResponse
  /\ handlerReturned = FALSE
  /\ genInput = NoGenInput
  /\ genSlots = NoGenSlots

InitInterviewVars ==
  /\ event \in LambdaEvents
  /\ lpc = "start"
  /\ startDate = PyNone
  /\ required = <<>>
  /\ idx = 0
  /\ scheduledMeetings = <<>>
  /\ schedulingConflicts = <<>>
  /\ meetingsTable \in {<<>>, <<EarlierMeeting>>}
  /\ invitesSent = 0
  /\ found = NoFound
  /\ response = NoResponse
  /\ handlerReturned = FALSE
  /\ genInput = NoGenInput
  /\ genSlots = NoGenSlots

InitSlotsVars ==
  /\ event = <<>>
  /\ lpc = "idle"
  /\ startDate = PyNone
  /\ required = <<>>
  /\ idx = 0
  /\ scheduledMeetings = <<>>
  /\ schedulingConflicts = <<>>
  /\ meetingsTable = <<>>
  /\ invitesSent = 0
  /\ found = NoFound
  /\ response = NoResponse
  /\ handlerReturned = FALSE
  /\ genInput \in {[start |-> DateTime(d, 0), config |-> c] :
                     d \in StartDays, c \in SlotConfigs}
  /\ genSlots = NoGenSlots

NextInterview ==
  \/ RejectEvent
  \/ StubHandler
  \/ StartScheduling
  \/ ScheduleNext
  \/ FinishScheduling

NextSlots == Generate

\* ------------------------------------------------ the email-automation lambda
\* infrastructure/lamda_functions/email_automation/lambda_function.py

\* Largest number of events the email-automation handler is given in one
\* behaviour.
MaxDeliveries == 3

\* json.dumps(x): the text of x, kept apart from x itself.
JsonDumps(x) == <<"json", x>>

\* The email types lambda_handler knows and the function each is handed to.
SendFunctions ==
  [welcome |-> "send_welcome_email",
   progress_update |-> "send_progress_update",
   assessment_reminder |-> "send_assessment_reminder",
   meeting_reminder |-> "send_meeting_reminder"]

EmailTypes == DOMAIN SendFunctions \cup {"newsletter"}

\* recipient_data as the event carries it: a mapping with or without an
\* 'email', or null.
RecipientDatas ==
  {[email |-> <<"ann@company.com">>, name |-> <<"Ann">>],
   [email |-> <<"ann@company.com">>],
   [name |-> <<"Ann">>],
   PyNone}

\* The JSON values the handler is invoked with: objects with and without
\* 'email_type' and 'recipient_data', and a value that is not an object.
MailEvents ==
  {Dict([email_type |-> t, recipient_data |-> r]) :
     t \in EmailTypes, r \in RecipientDatas}
    \cup {Dict([email_type |-> t]) : t \in EmailTypes}
    \cup {Dict([recipient_data |-> r]) : r \in RecipientDatas}
    \cup {Dict([source |-> "aws.events"]), [kind |-> "list"]}

\* What ses.send_email can do with the destination it is given: it raises for
\* a destination of None, and accepts or raises for an address.
SendEmailOutcomes == {"MessageId", "error"}

SesAccepts(recipient_data, sesOut) ==
  "email" \in DOMAIN recipient_data /\ sesOut = "MessageId"

\* The except clause of the four send functions.
MutSendFailure(err) ==
  [raised |-> TRUE, value |-> [success |-> FALSE, error |-> err]]
SendFailure(err) ==
  [raised |-> FALSE, value |-> [success |-> FALSE, error |-> err]]

\* The dict a send function returns when SES accepted the message.
SendSuccess(fn, recipient_data) ==
  IF fn = "send_welcome_email"
    THEN [success |-> TRUE, message_id |-> <<"MessageId">>,
          recipient |-> recipient_data.email]
    ELSE [success |-> TRUE, message_id |-> <<"MessageId">>]

\* send_welcome_email, send_progress_update, send_assessment_reminder and
\* send_meeting_reminder: recipient_data.get(...) raises on a recipient_data
\* that is no mapping, before ses.send_email is reached.
SendFunction(fn, recipient_data, sesOut) ==
  IF IsNone(recipient_data)
    THEN [attempts |-> <<>>, out |-> SendFailure(<<"AttributeError">>)]
    ELSE [attempts |-> << [fn |-> fn,
                           to |-> << Get(recipient_data, "email", PyNone) >>,
                           accepted |-> SesAccepts(recipient_data, sesOut)] >>,
          out |-> IF SesAccepts(recipient_data, sesOut)
                    THEN [raised |-> FALSE,
                          value |-> SendSuccess(fn, recipient_data)]
                    ELSE SendFailure(<<"ses", sesOut>>)]

\* lambda_handler of the email-automation function.
EmailLambdaHandler(ev, sesOut) ==
  IF ev.kind # "dict"
    THEN [attempts |-> <<>>,
          response |-> [statusCode |-> 500,
                        body |-> JsonDumps([error |-> <<"AttributeError">>])]]
  ELSE LET email_type == Get(ev.d, "email_type", "welcome")
           recipient_data == Get(ev.d, "recipient_data", <<>>)
       IN IF email_type \in DOMAIN SendFunctions
            THEN LET s == SendFunction(SendFunctions[email_type], recipient_data,
                                    sesOut)
                 IN [attempts |-> s.attempts,
                     response |->
                       IF s.out.raised
                         THEN [statusCode |-> 500,
                               body |-> JsonDumps([error |-> s.out.value.error])]
                         ELSE [statusCode |-> 200,
                               body |-> JsonDumps(s.out.value)]]
            ELSE [attempts |-> <<>>,
                  response |->
                    [statusCode |-> 400,
                     body |-> JsonDumps([error |-> <<"Unknown email type: ",
                                                     email_type>>])]]

NoMailEvent == [kind |-> "none"]
NoReply == [statusCode |-> 0, body |-> <<>>]

\* One invocation of the handler.
EmailLambda ==
  /\ focus = "mail"
  /\ deliveries < MaxDeliveries
  /\ \E ev \in MailEvents, sesOut \in SendEmailOutcomes :
       LET h == EmailLambdaHandler(ev, sesOut) IN
         /\ mailEvent' = ev
         /\ sendAttempts' = h.attempts
         /\ mailResponse' = h.response
  /\ deliveries' = deliveries + 1
  /\ UNCHANGED <<focus, agentVars, facadeVars, lazyVars, lambdaVars, docVars>>

IdleMailVars ==
  /\ mailEvent = NoMailEvent
  /\ sendAttempts = <<>>
  /\ mailResponse = NoReply
  /\ deliveries = 0

NextMail == EmailLambda

\* ----------------------------------------------- the document-processor lambda
\* infrastructure/lamda_functions/document_processor/lambda_function.py

\* Largest number of records in one S3 event.
MaxRecords == 3

\* An event name and an object key are token sequences: 'ObjectCreated:Put' is
\* <<"ObjectCreated", ":Put">>, 'Policy.PDF' is <<"Policy", ".PDF">>.
EventNames == {<<"ObjectCreated", ":Put">>, <<"ObjectRemoved", ":Delete">>}
ObjectKeys ==
  {<<"Policy", ".PDF">>, <<"notes", ".docx">>, <<"readme", ".txt">>,
   <<"photo", ".png">>}

\* The records of an S3 notification: each names its event, bucket and key.
S3Records ==
  {[eventName |-> n, s3 |-> [bucket |-> [name |-> "storevoice"],
                             object |-> [key |-> k]]] :
     n \in EventNames, k \in ObjectKeys}

SeqsUpTo(S, n) == UNION {[1..k -> S] : k \in 0..n}

\* The S3 events: a notification with up to MaxRecords records, and the test
\* event S3 sends when a notification is configured, which has no 'Records'.
DocEvents ==
  {[Records |-> rs] : rs \in SeqsUpTo(S3Records, MaxRecords)}
    \cup {[Event |-> "s3:TestEvent"]}

\* record.get('eventName', '').startswith('ObjectCreated')
StartsWithObjectCreated(record) ==
  LET name == Get(record, "eventName", <<>>)
  IN Len(name) >= 1 /\ name[1] = "ObjectCreated"

\* key.lower(), on the tokens the keys are made of.
Lower(tok) == IF tok = ".PDF" THEN ".pdf" ELSE IF tok = "Policy" THEN "policy"
              ELSE tok
\* key.lower().endswith(suffix)
LowerEndsWith(key, suffixes) ==
  Len(key) >= 1 /\ Lower(key[Len(key)]) \in suffixes

SupportedSuffixes == {".pdf", ".doc", ".docx", ".txt"}

\* extract_text_from_pdf, _doc and _txt: the text read, or "" when the read
\* raised.
ExtractOutcomes == {"text", "error"}
ExtractText(key, extractOut) ==
  IF extractOut = "text" THEN <<"text of ", key>> ELSE <<>>

\* The item store_document_metadata puts (document_id and processed_at left
\* out).
DocumentItem(key, extracted_text) ==
  [file_name |-> key, extracted_text |-> extracted_text,
   text_length |-> Len(extracted_text), status |-> "processed"]

PutOutcomes == {"ok", "error"}

\* The except clause of process_document.
MutProcessFailure(err) ==
  [raised |-> TRUE, value |-> [success |-> FALSE, error |-> err]]
ProcessFailure(err) ==
  [raised |-> FALSE, value |-> [success |-> FALSE, error |-> err]]

\* process_document(bucket, key): what it returns and the items it stored.
ProcessDocument(bucket, key, extractOut, putOut) ==
  IF LowerEndsWith(key, SupportedSuffixes)
    THEN LET extracted_text == ExtractText(key, extractOut)
         IN IF putOut = "ok"
              THEN [items |-> <<DocumentItem(key, extracted_text)>>,
                    out |-> [raised |-> FALSE,
                             value |-> [success |-> TRUE,
                                        text_length |-> Len(extracted_text)]]]
              ELSE [items |-> <<>>, out |-> ProcessFailure(<<"put_item">>)]
    ELSE [items |-> <<>>,
          out |-> [raised |-> FALSE,
                   value |-> [success |-> FALSE,
                              error |-> <<"Unsupported file type: ", key>>]]]

NoDocEvent == [Event |-> "none"]
Records(ev) == Get(ev, "Records", <<>>)

\* lambda_handler is entered with an S3 event.
DocReceive ==
  /\ focus = "docs"
  /\ dpc = "idle"
  /\ \E ev \in DocEvents : docEvent' = ev
  /\ dpc' = "loop"
  /\ UNCHANGED <<recIdx, processed, docItems, docResponse>>
  /\ UNCHANGED <<focus, agentVars, facadeVars, lazyVars, lambdaVars, mailVars>>

\* One iteration of the loop over event.get('Records', []).
DocRecord ==
  /\ focus = "docs"
  /\ dpc = "loop"
  /\ recIdx < Len(Records(docEvent))
  /\ LET record == Records(docEvent)[recIdx + 1] IN
       IF StartsWithObjectCreated(record)
         THEN \E extractOut \in ExtractOutcomes, putOut \in PutOutcomes :
                LET bucket == record.s3.bucket.name
                    key == record.s3.object.key
                    p == ProcessDocument(bucket, key, extractOut, putOut)
                IN /\ processed' = Append(processed,
                                          [bucket |-> bucket, key |-> key,
                                           index |-> recIdx + 1,
                                           success |-> p.out.value.success])
                   /\ docItems' = docItems \o p.items
                   /\ IF p.out.raised
                        THEN /\ dpc' = "done"
                             /\ docResponse' =
                                  [statusCode |-> 500,
                                   body |-> JsonDumps(
                                     [error |-> p.out.value.error])]
                        ELSE UNCHANGED <<dpc, docResponse>>
         ELSE UNCHANGED <<processed, docItems, dpc, docResponse>>
  /\ recIdx' = recIdx + 1
  /\ UNCHANGED docEvent
  /\ UNCHANGED <<focus, agentVars, facadeVars, lazyVars, lambdaVars, mailVars>>

\* The loop is over: lambda_handler returns.
DocReturn ==
  /\ focus = "docs"
  /\ dpc = "loop"
  /\ recIdx = Len(Records(docEvent))
  /\ dpc' = "done"
  /\ docResponse' =
       [statusCode |-> 200,
        body |-> JsonDumps([message |-> "Documents processed successfully"])]
  /\ UNCHANGED <<docEvent, recIdx, processed, docItems>>
  /\ UNCHANGED <<focus, agentVars, facadeVars, lazyVars, lambdaVars, mailVars>>

IdleDocVars ==
  /\ docEvent = NoDocEvent
  /\ dpc = "idle"
  /\ recIdx = 0
  /\ processed = <<>>
  /\ docItems = <<>>
  /\ docResponse = NoReply

NextDocs == DocReceive \/ DocRecord \/ DocReturn

vars == <<focus, agentVars, facadeVars, lazyVars, lambdaVars, mailVars,
          docVars>>

\* One guarded call after another.
InitAgent ==
  /\ focus = "agent" /\ InitAgentVars /\ IdleFacadeVars /\ InitLazyVars /\ IdleLambdaVars
  /\ IdleMailVars /\ IdleDocVars

SpecAgent == InitAgent /\ [][NextAgent]_vars

\* The email, the progress and the meeting facade.
InitFacade ==
  /\ focus \in {"email", "tracker", "scheduler"}
  /\ IdleAgentVars /\ InitFacadeVars /\ InitLazyVars /\ IdleLambdaVars
  /\ IdleMailVars /\ IdleDocVars

SpecFacade == InitFacade /\ [][NextFacade]_vars

\* The threads on AWSHelper's properties.
InitLazy ==
  /\ focus = "lazy" /\ IdleAgentVars /\ IdleFacadeVars /\ InitLazyVars /\ IdleLambdaVars
  /\ IdleMailVars /\ IdleDocVars

SpecLazy == InitLazy /\ [][NextLazy]_vars

\* The progress tracker with complete_module.
InitModules ==
  /\ focus = "modules"
  /\ IdleAgentVars /\ InitFacadeVars /\ InitLazyVars /\ IdleLambdaVars
  /\ flags.email /\ flags.scheduler
  /\ IdleMailVars /\ IdleDocVars

SpecModules == InitModules /\ [][NextModules]_vars

\* One thread on AWSHelper's properties at a time: a getter is entered only when
\* no getter is running.
SeqAccess(t) ==
  /\ \A u \in Threads : threads[u].pc = "idle"
  /\ Access(t)

NextLazySeq ==
  \/ \E t \in Threads : SeqAccess(t)
  \/ \E t \in Threads : Test(t)
  \/ \E t \in Threads : Construct(t)
  \/ \E t \in Threads : ConstructRaises(t)
  \/ \E t \in Threads : Store(t)
  \/ \E t \in Threads : Return(t)

SpecLazySeq == InitLazy /\ [][NextLazySeq]_vars

\* One event through the interview-scheduler lambda.
InitInterview ==
  /\ focus = "interview"
  /\ IdleAgentVars /\ IdleFacadeVars /\ InitLazyVars /\ InitInterviewVars
  /\ IdleMailVars /\ IdleDocVars

SpecInterview == InitInterview /\ [][NextInterview]_vars

\* generate_preferred_times over its arguments.
InitSlots ==
  /\ focus = "slots"
  /\ IdleAgentVars /\ IdleFacadeVars /\ InitLazyVars /\ InitSlotsVars
  /\ IdleMailVars /\ IdleDocVars

SpecSlots == InitSlots /\ [][NextSlots]_vars

\* The email-automation handler, invoked up to MaxDeliveries times.
InitMail ==
  /\ focus = "mail"
  /\ IdleAgentVars /\ IdleFacadeVars /\ InitLazyVars /\ IdleLambdaVars
  /\ IdleMailVars /\ IdleDocVars

SpecMail == InitMail /\ [][NextMail]_vars

\* One invocation of the document processor.
InitDocs ==
  /\ focus = "docs"
  /\ IdleAgentVars /\ IdleFacadeVars /\ InitLazyVars /\ IdleLambdaVars
  /\ IdleMailVars /\ IdleDocVars

SpecDocs == InitDocs /\ [][NextDocs]_vars

\* Every operation that returns a success/failure dict: the facades share no
\* state, and a behaviour exercises one of them.
Init == InitAgent \/ InitFacade

Next == NextAgent \/ NextFacade

Spec == Init /\ [][Next]_vars

\* ------------------------------------------------ claims on the guarded call

Last(s) == s[Len(s)]
AllTransient(s) == \A i \in 1..Len(s) : s[i] = "transient"
\* A value the caller can read as a failure: a dict with success False, or (chat,
\* voice) the apology string.
IsFailureValue(r) ==
  \/ r.kind = "dict" /\ r.d.success = FALSE
  \/ /\ r.kind = "str"
     /\ r.text = <<"Sorry, the service is temporarily unavailable. Please try again later.">>
GenericTexts ==
  { <<"Sorry, I am temporarily unavailable. Please try again later.">>,
    <<"Sorry, I am temporarily unavailable. Please try again.">>,
    <<"Sorry, the service is temporarily unavailable. Please try again later.">> }

\* C1 (as claimed): a guarded agent call never raises and never returns nothing:
\* whatever each attempt does, it ends by returning a dict or a text.
C1_NeverRaisesAlwaysResult ==
  /\ pc # "raised"
  /\ pc = "returned" => result.kind \in {"dict", "str"}

\* C2: when every invocation fails with InternalServerException and the loop
\* bound is N >= 1, the finished call has made exactly N invocations and N-1
\* sleeps and has returned a failure.
C2_RetryBound ==
  (pc \in {"returned", "raised"} /\ retries >= 1 /\ AllTransient(log))
    => /\ pc = "returned"
       /\ invocations = retries
       /\ waits = retries - 1
       /\ IsFailureValue(result)

C2_Witness ==
  /\ pc = "returned" /\ retries = 3 /\ AllTransient(log)
  /\ invocations = 3 /\ waits = 2 /\ IsFailureValue(result)

\* C3: once an attempt has failed with an exception other than
\* InternalServerException, no further invocation and no sleep follows: the
\* invocations stay at the number of attempts finished, the sleeps at one less
\* (none when it was attempt 1), and orchestrator and helper return a failure
\* carrying the error.
C3_NoRetryOnTerminal ==
  (log # <<>> /\ Last(log) = "other")
    => /\ pc \in {"except", "returned", "raised"}
       /\ invocations = Len(log)
       /\ waits = Len(log) - 1
       /\ (variant \in DictVariants /\ pc # "except")
            => /\ pc = "returned"
               /\ result.kind = "dict"
               /\ result.d.success = FALSE
               /\ result.d.error = <<exc.raw>>

C3_Witness ==
  /\ log = <<"other">> /\ pc = "returned" /\ retries = 3
  /\ invocations = 1 /\ waits = 0 /\ result.d.success = FALSE

\* C4: when attempt k succeeds after k-1 transient failures, the call has
\* returned with exactly k invocations and k-1 sleeps, the value is a success
\* carrying that attempt's text, and nothing is invoked afterwards.
C4_SuccessShortCircuits ==
  (log # <<>> /\ Last(log) = "ok")
    => /\ pc = "returned"
       /\ invocations = Len(log)
       /\ waits = Len(log) - 1
       /\ AllTransient(SubSeq(log, 1, Len(log) - 1))
       /\ Displayed(result) = responseText
       /\ result.kind = "dict" => result.d.success = TRUE

C4_Witness ==
  /\ log = <<"transient", "ok">> /\ retries = 3 /\ pc = "returned"
  /\ invocations = 2 /\ waits = 1 /\ Displayed(result) = <<"a", "b">>

\* C8 (as claimed): a call given retries = 0 invokes nothing and ends in a
\* configuration error, never in another attempt count or in no result.
C8_ZeroAttemptsRejected ==
  retriesArg = <<0>>
    => /\ invocations = 0
       /\ pc = "returned"
            => /\ result.kind = "dict"
               /\ result.d.success = FALSE
               /\ result.d.error = <<"ConfigurationError">>

\* C9: when the last attempt fails transiently the text given to the caller is
\* one of the fixed apology texts and holds no raw error text.
C9_ExhaustedGeneric ==
  (pc = "returned" /\ log # <<>> /\ Last(log) = "transient")
    => /\ Displayed(result) \in GenericTexts
       /\ \A i \in 1..Len(Displayed(result)) : Displayed(result)[i] \notin RawErrs
       /\ result.kind = "dict"
            => result.d.error = <<"Service temporarily unavailable">>

C9_Witness ==
  /\ pc = "returned" /\ log = <<"transient", "transient", "transient">>
  /\ exc.raw = "raw2" /\ Displayed(result) \in GenericTexts

C5_DisabledSkipsService ==
  /\ (lastOp.name = "_send_email" /\ (~email.enabled \/ email.ses = None))
       => /\ lastOp.calls = 0
          /\ lastOp.value.d = [success |-> FALSE,
                               message |-> <<"Email automation not enabled">>]
  /\ (lastOp.name = "update_progress" /\ tracker.table = None)
       => /\ lastOp.calls = 0
          /\ lastOp.value.d = [success |-> FALSE,
                               message |-> <<"Progress tracking not available">>]
  /\ (lastOp.name = "get_progress" /\ tracker.table = None)
       => /\ lastOp.calls = 0
          /\ lastOp.value.d.overall_progress = 45
          /\ lastOp.value.d.learning_streak_days = 12
  /\ (lastOp.name = "initialize_progress" /\ tracker.table = None)
       => /\ lastOp.calls = 0
          /\ lastOp.value.d.overall_progress = 0
          /\ store = [u \in Users |-> NoItem]

C5_Witness ==
  /\ tracker.built /\ tracker.table = None /\ ops = 3
  /\ lastOp.name = "get_progress" /\ lastOp.calls = 0
  /\ lastOp.value.d.overall_progress = 45

\* The success/failure dicts of ask_agent / invoke_bedrock_agent, _send_email and
\* update_progress.
PayloadKeys == {"response", "message_id", "progress"}
AgentReturnedDict == pc = "returned" /\ result.kind = "dict"
FacadeReturnedDict == lastOp.name \in {"_send_email", "update_progress"}

CallResultAsClaimed(d) ==
  /\ d.success => (DOMAIN d \cap PayloadKeys # {} /\ "error" \notin DOMAIN d)
  /\ ~d.success => "error" \in DOMAIN d

\* C7 (as claimed): a success carries a payload and no error, a failure carries
\* an 'error' field, whatever the outcome.
C7_CallResultInvariant ==
  /\ AgentReturnedDict => CallResultAsClaimed(result.d)
  /\ FacadeReturnedDict => CallResultAsClaimed(lastOp.value.d)

CallResultAmended(d, svcCalls) ==
  /\ d.success => /\ DOMAIN d \cap PayloadKeys # {}
                  /\ DOMAIN d \cap {"error", "message"} = {}
  /\ ~d.success => /\ Cardinality(DOMAIN d \cap {"error", "message"}) = 1
                   /\ DOMAIN d \cap {"message_id", "progress"} = {}
                   /\ svcCalls = 0 => "message" \in DOMAIN d

\* C7 (amended): a success carries a payload and neither 'error' nor 'message';
\* a failure carries exactly one of 'error' (the service raised, or the retries
\* ran out) and 'message' (the facade is disabled or unavailable, or the item
\* was not found), and a failure that made no service call carries 'message'.
C7_CallResultErrorOrMessage ==
  /\ AgentReturnedDict => CallResultAmended(result.d, invocations)
  /\ FacadeReturnedDict => CallResultAmended(lastOp.value.d, lastOp.calls)

C7_Witness ==
  /\ lastOp.name = "update_progress" /\ lastOp.calls = 1
  /\ ~lastOp.value.d.success
  /\ DOMAIN lastOp.value.d = {"success", "message"}

\* ------------------------------------------------ claims on the lazy clients

\* C6 (as claimed): however the threads' first accesses to a property
\* interleave, one client is constructed for it and every caller gets that one.
C6_ConstructedOnceSeenByAll ==
  \A p \in Props : built[p] <= 1 /\ Cardinality(returned[p]) <= 1


\* ------------------------------------------------ claims, second part

\* The availability state a facade object encodes.
EmailState(obj) ==
  IF ~obj.enabled THEN "Disabled"
  ELSE IF obj.ses = None THEN "Unreachable" ELSE "Available"
SchedulerState(obj) ==
  IF ~obj.enabled THEN "Disabled"
  ELSE IF obj.dynamodb = None THEN "Unreachable" ELSE "Available"

\* C11: the availability of EmailAutomation, ProgressTracker and MeetingScheduler
\* is decided at construction, from the flag as it then is and from whether the
\* client could be built, and never changes afterwards: no step writes a built
\* object, whatever the flag is changed to, and an email operation calls SES
\* exactly when the object was constructed Available.
C11_AvailabilityFixedAtConstruction ==
  [][ /\ email.built => email' = email
      /\ tracker.built => tracker' = tracker
      /\ meetingScheduler.built => meetingScheduler' = meetingScheduler
      /\ (~email.built /\ email'.built)
           => /\ email'.enabled = flags.email
              /\ (email'.ses # None => flags.email)
      /\ (~tracker.built /\ tracker'.built)
           => (tracker'.table # None => flags.tracking)
      /\ (~meetingScheduler.built /\ meetingScheduler'.built)
           => /\ meetingScheduler'.enabled = flags.scheduler
              /\ (meetingScheduler'.dynamodb # None => flags.scheduler)
      /\ (ops' = ops + 1 /\ lastOp'.name = "_send_email")
           => (lastOp'.calls > 0 <=> EmailState(email) = "Available")
      /\ (ops' = ops + 1 /\ lastOp'.name \in {"get_progress", "update_progress",
                                              "initialize_progress"})
           => (lastOp'.calls > 0 <=> tracker.table # None)
      /\ (ops' = ops + 1 /\ lastOp'.name = "schedule_meeting")
           => lastOp'.calls = 0
    ]_vars

\* An Unreachable email handle whose flag was switched off and on again is still
\* Unreachable, and the operation on it called nothing.
C11_Witness ==
  /\ email.built /\ EmailState(email) = "Unreachable"
  /\ flags.email /\ ops = 3
  /\ lastOp.name = "_send_email" /\ lastOp.calls = 0

\* C12: the attempts of one guarded call are strictly sequential: never more
\* than one invocation in flight, and while attempt number attempt (counted
\* from 0) is in flight, each of the attempt earlier ones has ended with the
\* transient error and each of their sleeps has returned.
C12_AttemptsSequential ==
  /\ inflight <= 1
  /\ (inflight = 1) <=> (pc \in {"invoking", "stream"})
  /\ pc \in {"invoking", "stream"}
       => /\ invocations = attempt + 1
          /\ Len(log) = attempt
          /\ AllTransient(log)
          /\ waits = attempt

\* The third attempt is in flight after two transient failures and two sleeps.
C12_Witness ==
  /\ pc = "stream" /\ attempt = 2 /\ inflight = 1
  /\ waits = 2 /\ log = <<"transient", "transient">>

\* The chunk texts of a sequence of stream events, in order.
RECURSIVE ChunksOf(_)
ChunksOf(evs) ==
  IF evs = <<>> THEN <<>>
  ELSE (IF IsChunk(Head(evs)) THEN <<Head(evs).chunk>> ELSE <<>>)
         \o ChunksOf(Tail(evs))

\* C14: the text a successful call returns is the in-order concatenation of the
\* chunk events of the attempt that succeeded: its other events add nothing, and
\* no chunk of an earlier attempt that failed mid-stream is in it.
C14_TextIsChunksOfSuccessfulAttempt ==
  (pc = "returned" /\ log # <<>> /\ Last(log) = "ok")
    => /\ Displayed(result) = ChunksOf(events)
       /\ result.kind = "dict" => result.d.response = ChunksOf(events)

\* A call succeeds at its second attempt with one chunk and one other event,
\* after a first attempt that had received a chunk when it failed.
C14_Witness ==
  /\ pc = "returned" /\ log = <<"transient", "ok">> /\ lostChunks
  /\ Len(events) = 2 /\ Len(ChunksOf(events)) = 1
  /\ Displayed(result) = ChunksOf(events)

\* The data fields of a progress record, as initialize_progress lays them out.
ProgressFields == DOMAIN InitialProgress("u1", <<>>, 0)

\* A record is tagged when it carries a field beyond the data fields.
Tagged(rec) == \E k \in DOMAIN rec : k \notin ProgressFields

\* C13: the record get_progress returns without reading the store (tracking
\* disabled, or the table never obtained) carries a tag that marks it as
\* synthetic, for every user id.
C13_FallbackTagged ==
  (lastOp.name = "get_progress" /\ lastOp.calls = 0)
    => Tagged(lastOp.value.d)

AbsMinutes(s) == FromIsoFormat(s).day * 1440 + FromIsoFormat(s).minute

\* [start_time, end_time) of two meeting records share an instant.
Overlap(a, b) ==
  /\ AbsMinutes(a.start_time) < AbsMinutes(b.end_time)
  /\ AbsMinutes(b.start_time) < AbsMinutes(a.end_time)

\* C17: the meetings one run of schedule_onboarding_meetings has created for
\* the employee are pairwise disjoint in time.
C17_NoOverlappingMeetings ==
  \A i \in 1..Len(scheduledMeetings), j \in 1..Len(scheduledMeetings) :
    i < j => ~Overlap(scheduledMeetings[i], scheduledMeetings[j])

\* How often a meeting type occurs in a list of meeting or conflict records.
Occurrences(list, type) ==
  Cardinality({i \in 1..Len(list) : list[i].meeting_type = type})

\* C18: when schedule_onboarding_meetings has returned, every required meeting
\* type is in exactly one of scheduled_meetings and scheduling_conflicts, and
\* the two counts of the returned dict add up to the number of required
\* meetings, whether put_item or send_email raised or not; during the loop the
\* two lists together hold one entry per finished iteration.
C18_EveryMeetingAccountedOnce ==
  /\ lpc = "loop" =>
       Len(scheduledMeetings) + Len(schedulingConflicts) = idx
  /\ (lpc = "responded" /\ handlerReturned
        /\ Dispatch(event) = "schedule_onboarding_meetings")
       => /\ \A k \in 1..Len(required) :
               Occurrences(scheduledMeetings, required[k].type)
                 + Occurrences(schedulingConflicts, required[k].type) = 1
          /\ response.body.scheduled_meetings
               + response.body.scheduling_conflicts = Len(required)
          /\ response.body.scheduled_meetings = Len(scheduledMeetings)
          /\ response.body.scheduling_conflicts = Len(schedulingConflicts)

\* A run over five required meetings has returned: one meeting could not be
\* stored, and an invitation of a stored one was refused by SES.
C18_Witness ==
  /\ lpc = "responded" /\ handlerReturned /\ Len(required) = 5
  /\ Len(scheduledMeetings) = 4 /\ Len(schedulingConflicts) = 1
  /\ schedulingConflicts[1].reason = <<"error: ", "raw2">>
  /\ invitesSent = 3

C20_HandlerAlwaysAnswers ==
  /\ lpc # "responded" => ENABLED NextInterview
  /\ lpc = "responded" =>
       /\ response.statusCode \in {200, 500}
       /\ handlerReturned <=> response.statusCode = 200
       /\ Dispatch(event) = "ValueError" =>
            /\ response.statusCode = 500
            /\ response.body.error = "Interview scheduling failed"
            /\ scheduledMeetings = <<>>
            /\ \A i \in 1..Len(meetingsTable) : meetingsTable[i] = EarlierMeeting
            /\ invitesSent = 0

\* An event with an unknown action has been answered.
C20_Witness ==
  /\ lpc = "responded"
  /\ "scheduling_action" \in DOMAIN event
  /\ event.scheduling_action = "delete_everything"
  /\ response.statusCode = 500
  /\ meetingsTable = <<EarlierMeeting>>

\* ------------------------------------------------ claims on the progress record

\* C25: a successful update_progress made the day after the stored
\* last_activity_date stores a streak one longer than the stored one, and one
\* made after a skipped day stores a streak that has started over.
C25_StreakCountsConsecutiveDays ==
  [][ (ops' = ops + 1 /\ lastOp'.name = "update_progress"
         /\ lastOp'.value.d.success)
        => LET u == lastOp'.value.d.progress.user_id
               before == store[u]
               after == store'[u]
           IN /\ today = before.last_activity_date[2] + 1
                   => after.learning_streak_days = before.learning_streak_days + 1
              /\ today > before.last_activity_date[2] + 1
                   => after.learning_streak_days <= 1
    ]_vars

\* C23: complete_module for a module that is already among the user's stored
\* completed_modules answers 'Module already completed', puts nothing and leaves
\* the stored record as it was.
C23_CompletionIdempotent ==
  [][ (ops' = ops + 1 /\ lastOp'.name = "complete_module")
        => LET u == lastOp'.args.user_id
               m == lastOp'.args.module_name
           IN (store[u] # NoItem /\ Contains(store[u].completed_modules, m))
                => /\ lastOp'.value.d =
                        [success |-> TRUE,
                         message |-> <<"Module already completed">>]
                   /\ lastOp'.puts = 0
                   /\ store' = store
    ]_vars

\* The weaker statement that does hold: a completion of an already completed
\* module either answers 'Module already completed' and writes nothing, or
\* worked from the record get_progress substitutes when its read fails.
C23_IdempotentUnlessReadFell ==
  [][ (ops' = ops + 1 /\ lastOp'.name = "complete_module")
        => LET u == lastOp'.args.user_id
               m == lastOp'.args.module_name
           IN (store[u] # NoItem /\ Contains(store[u].completed_modules, m))
                => \/ /\ lastOp'.value.d =
                           [success |-> TRUE,
                            message |-> <<"Module already completed">>]
                      /\ lastOp'.puts = 0
                      /\ store' = store
                   \/ /\ ~lastOp'.value.d.success
                      /\ store' = store
                   \/ /\ lastOp'.puts = 1
                      /\ store'[u].completed_modules
                           = Append(MockProgress(u, today).completed_modules, m)
    ]_vars

\* No element occurs in two of the three module lists of a progress record.
ListsDisjoint(rec) ==
  /\ \A i \in 1..Len(rec.completed_modules) :
       /\ ~Contains(rec.in_progress_modules, rec.completed_modules[i])
       /\ ~Contains(rec.upcoming_modules, rec.completed_modules[i])
  /\ \A i \in 1..Len(rec.in_progress_modules) :
       ~Contains(rec.upcoming_modules, rec.in_progress_modules[i])

\* C24: a complete_module that succeeded in completing m on a record whose
\* three lists were pairwise disjoint leaves m in completed_modules and in
\* neither other list, and overall_progress at the floor of the completed
\* percentage of all listed modules.
C24_CompletionKeepsListsDisjoint ==
  [][ (ops' = ops + 1 /\ lastOp'.name = "complete_module"
         /\ "progress" \in DOMAIN lastOp'.value.d)
        => LET u == lastOp'.args.user_id
               m == lastOp'.args.module_name
               after == store'[u]
               total == Len(after.completed_modules)
                          + Len(after.in_progress_modules)
                          + Len(after.upcoming_modules)
           IN ListsDisjoint(store[u])
                => /\ Contains(after.completed_modules, m)
                   /\ ~Contains(after.in_progress_modules, m)
                   /\ ~Contains(after.upcoming_modules, m)
                   /\ after.overall_progress
                        = (100 * Len(after.completed_modules)) \div total
                   /\ after.overall_progress \in 0..100
    ]_vars

\* ------------------------------------------------ claims on the two lambdas
MailTypeKnown ==
  Get(mailEvent.d, "email_type", "welcome") \in DOMAIN SendFunctions

\* C21 as stated, for the events that are mappings: an unknown email_type
\* yields 400 with no send attempt, and a known or absent one yields 200 after
\* exactly one send attempt, with success false in the body when that send
\* failed.
C21_StatusByTypeOneAttempt ==
  (deliveries > 0 /\ mailEvent.kind = "dict") =>
    IF ~MailTypeKnown
      THEN mailResponse.statusCode = 400 /\ sendAttempts = <<>>
      ELSE /\ mailResponse.statusCode = 200
           /\ Len(sendAttempts) = 1
           /\ ~sendAttempts[1].accepted => ~mailResponse.body[2].success

\* C21: the handler always returns a response. An event that is no mapping
\* yields 500 and an unknown email_type yields 400, both without a send
\* attempt; a known or absent email_type yields 200 after exactly one send
\* attempt, or after none when recipient_data is null, and the body reports
\* success exactly when a send was attempted and accepted.
C21_StatusByEventAndType ==
  deliveries > 0 =>
    IF mailEvent.kind # "dict"
      THEN mailResponse.statusCode = 500 /\ sendAttempts = <<>>
    ELSE IF ~MailTypeKnown
      THEN mailResponse.statusCode = 400 /\ sendAttempts = <<>>
    ELSE /\ mailResponse.statusCode = 200
         /\ Len(sendAttempts)
              = IF IsNone(Get(mailEvent.d, "recipient_data", <<>>))
                  THEN 0 ELSE 1
         /\ mailResponse.body[2].success
              = (Len(sendAttempts) = 1 /\ sendAttempts[1].accepted)

\* A known type whose one send SES refused: 200 with success false.
C21_Witness ==
  /\ deliveries > 0
  /\ mailEvent.kind = "dict"
  /\ "email_type" \in DOMAIN mailEvent.d
  /\ mailEvent.d.email_type = "progress_update"
  /\ Len(sendAttempts) = 1
  /\ "recipient_data" \in DOMAIN mailEvent.d
  /\ "email" \in DOMAIN mailEvent.d.recipient_data
  /\ ~sendAttempts[1].accepted
  /\ mailResponse.statusCode = 200
  /\ ~mailResponse.body[2].success

\* The records of the event that name an object creation, by position, among
\* the first n.
CreatedUpTo(rs, n) ==
  SelectSeq([i \in 1..n |-> i], LAMBDA i : StartsWithObjectCreated(rs[i]))

\* C22: process_document has been called exactly for the 'ObjectCreated'
\* records the loop has passed, once each and in event order, whatever the
\* earlier calls returned, and the handler returns only after the last record,
\* with 200.
C22_RecordsHandledIndependently ==
  LET rs == Records(docEvent)
      expected == CreatedUpTo(rs, recIdx)
  IN /\ Len(processed) = Len(expected)
     /\ \A j \in 1..Len(expected) :
          /\ processed[j].index = expected[j]
          /\ processed[j].key = rs[expected[j]].s3.object.key
          /\ processed[j].bucket = rs[expected[j]].s3.bucket.name
     /\ dpc = "done"
          => recIdx = Len(rs) /\ docResponse.statusCode = 200

\* Three records: a removal, a creation whose processing failed and a creation
\* whose processing succeeded after it.
C22_Witness ==
  /\ dpc = "done"
  /\ Len(Records(docEvent)) = 3
  /\ ~StartsWithObjectCreated(Records(docEvent)[1])
  /\ Len(processed) = 2
  /\ ~processed[1].success
  /\ processed[2].success
  /\ Len(docItems) = 1
  /\ docResponse.statusCode = 200

====
